---- MODULE Spec2Model ----
(***************************************************************************)
(* A model of tradebot: the order validators (bot/validators.py),          *)
(* placeOrder and formatOrderResponse (bot/orders.py), BinanceClient       *)
(* (bot/client.py) and the error reporting of main (cli.py).               *)
(*                                                                         *)
(* Python strings are sequences of one-character strings, so that strip,   *)
(* upper, isalpha, endswith and float() are computed character by          *)
(* character.  Python values are records [t, s, n]: t is the type tag,     *)
(* s the characters of a str, n the number of an int or float.  Floats     *)
(* are integer-valued in the model; the float NaN has its own tag.         *)
(***************************************************************************)
EXTENDS Integers, Sequences, FiniteSets, TLC

VARIABLES
    pc,           \* position of the run: "init", "ready", "request", "done", "fn"
    apiKey,       \* BinanceClient.apiKey
    apiSecret,    \* BinanceClient.apiSecret
    session,      \* whether BinanceClient.session has been created
    raw,          \* the raw arguments placeOrder was called with
    ran,          \* the validators placeOrder has invoked, in order
    callerParams, \* placeOrder's params mapping, as passed to client.post
    params,       \* _request's local params mapping
    attempt,      \* the loop variable of _request's retry loop
    lastExc,      \* _request's lastExc
    calls,        \* the calls made on session.request, each with its result
    sleeps,       \* the durations passed to time.sleep, in order
    now,          \* wall-clock time, in seconds
    outcome,      \* how the innermost call ended: nothing yet, a returned value,
                  \* a raised exception
    placed,       \* how placeOrder ended, once it was called
    report,       \* what main printed when the run ended
    accepted      \* the number of orders the exchange has accepted

vars == <<pc, apiKey, apiSecret, session, raw, ran, callerParams, params, attempt,
         lastExc, calls, sleeps, now, outcome, placed, report, accepted>>

----------------------------------------------------------------------------
(* Bounds of the model *)

\* longest symbol string enumerated for validateSymbol
MaxSymbolLen == 6
\* longest price string enumerated for validatePrice
MaxPriceLen == 3
\* largest magnitude of an enumerated float price
MaxPrice == 2
\* latest clock reading, in seconds, enumerated for _sign
MaxClock == 2

----------------------------------------------------------------------------
(* Python values *)

PyNone == [t |-> "None", s |-> <<>>, n |-> 0]
PyStr(chars) == [t |-> "str", s |-> chars, n |-> 0]
PyFloat(x) == [t |-> "float", s |-> <<>>, n |-> x]
PyNaN == [t |-> "nan", s |-> <<>>, n |-> 0]
PyInt(x) == [t |-> "int", s |-> <<>>, n |-> x]

\* Python truthiness: None, "", 0 and 0.0 are falsy; NaN is truthy
Truthy(v) ==
    CASE v.t = "None" -> FALSE
      [] v.t = "str" -> v.s # <<>>
      [] v.t \in {"float", "int"} -> v.n # 0
      [] OTHER -> TRUE

LowerCase == <<"a","b","c","d","e","f","g","h","i","j","k","l","m",
               "n","o","p","q","r","s","t","u","v","w","x","y","z">>
UpperCase == <<"A","B","C","D","E","F","G","H","I","J","K","L","M",
               "N","O","P","Q","R","S","T","U","V","W","X","Y","Z">>
Letters == {LowerCase[i] : i \in 1..26} \cup {UpperCase[i] : i \in 1..26}
Digits == <<"0","1","2","3","4","5","6","7","8","9">>
Whitespace == {" ", "\t", "\n"}

UpperChar(c) ==
    IF \E i \in 1..26 : LowerCase[i] = c
    THEN UpperCase[CHOOSE i \in 1..26 : LowerCase[i] = c]
    ELSE c

\* str.upper()
upper(s) == [i \in 1..Len(s) |-> UpperChar(s[i])]

\* str.strip()
strip(s) ==
    LET keep == {i \in 1..Len(s) : s[i] \notin Whitespace}
    IN  IF keep = {} THEN <<>>
        ELSE SubSeq(s, CHOOSE i \in keep : \A j \in keep : i <= j,
                       CHOOSE i \in keep : \A j \in keep : i >= j)

\* str.isalpha(): at least one character and every character a letter
isalpha(s) == Len(s) > 0 /\ \A i \in 1..Len(s) : s[i] \in Letters

\* str.endswith(suffix)
endswith(s, suffix) ==
    /\ Len(s) >= Len(suffix)
    /\ SubSeq(s, Len(s) - Len(suffix) + 1, Len(s)) = suffix

\* the result of a validator: a returned value or a raised ValueError
Ok(v) == [ok |-> TRUE, v |-> v, err |-> ""]
Fail(msg) == [ok |-> FALSE, v |-> PyNone, err |-> msg]

IsDigit(c) == \E i \in 1..10 : Digits[i] = c
DigitVal(c) == (CHOOSE i \in 1..10 : Digits[i] = c) - 1

RECURSIVE DecimalVal(_)
DecimalVal(s) ==
    IF s = <<>> THEN 0
    ELSE 10 * DecimalVal(SubSeq(s, 1, Len(s) - 1)) + DigitVal(s[Len(s)])

\* float(): a float is returned as it is, None raises TypeError, and a str is
\* parsed after stripping whitespace: an optional sign, then "nan" in any
\* case or decimal digits; any other text over the characters the inputs
\* are drawn from (digits, letters, sign, whitespace: no ".", "_", exponent
\* or "inf") raises ValueError.
float(v) ==
    CASE v.t \in {"float", "nan"} -> Ok(v)
      [] v.t = "int" -> Ok(PyFloat(v.n))
      [] v.t = "None" -> Fail("TypeError")
      [] v.t = "str" ->
            LET body == strip(v.s)
                signed == body # <<>> /\ body[1] \in {"+", "-"}
                digits == IF signed THEN SubSeq(body, 2, Len(body)) ELSE body
                sign == IF signed /\ body[1] = "-" THEN -1 ELSE 1
            IN  IF upper(digits) = <<"N", "A", "N">> THEN Ok(PyNaN)
                ELSE IF digits # <<>> /\ \A i \in 1..Len(digits) : IsDigit(digits[i])
                     THEN Ok(PyFloat(sign * DecimalVal(digits)))
                     ELSE Fail("ValueError")

\* x <= 0 on floats: every comparison with NaN is false
LeZero(v) == v.t = "float" /\ v.n <= 0

S_USDT == <<"U", "S", "D", "T">>
S_BUY == <<"B", "U", "Y">>
S_SELL == <<"S", "E", "L", "L">>
S_MARKET == <<"M", "A", "R", "K", "E", "T">>
S_LIMIT == <<"L", "I", "M", "I", "T">>
S_GTC == <<"G", "T", "C">>

VALID_SIDES == {S_BUY, S_SELL}
VALID_ORDER_TYPES == {S_MARKET, S_LIMIT}

----------------------------------------------------------------------------
(* bot/validators.py *)

\* validateSymbol without its length check
validateSymbol_NoLength(symbol) ==
    IF ~Truthy(symbol) \/ symbol.t # "str"
    THEN Fail("Symbol must be a non-empty string.")
    ELSE LET sym == upper(strip(symbol.s))
         IN  IF ~isalpha(sym) THEN Fail("Symbol must contain only letters")
             ELSE IF ~endswith(sym, S_USDT)
                  THEN Fail("Only USDT-M futures pairs are supported")
                  ELSE Ok(PyStr(sym))

validateSymbol(symbol) ==
    IF ~Truthy(symbol) \/ symbol.t # "str"
    THEN Fail("Symbol must be a non-empty string.")
    ELSE LET sym == upper(strip(symbol.s))
         IN  IF ~isalpha(sym) THEN Fail("Symbol must contain only letters")
             ELSE IF ~endswith(sym, S_USDT)
                  THEN Fail("Only USDT-M futures pairs are supported")
                  ELSE IF Len(sym) < 5 THEN Fail("Symbol too short")
                       ELSE Ok(PyStr(sym))

validateSide(side) ==
    IF ~Truthy(side) \/ side.t # "str"
    THEN Fail("Side must be a non-empty string.")
    ELSE LET sd == upper(strip(side.s))
         IN  IF sd \notin VALID_SIDES THEN Fail("Side must be one of")
             ELSE Ok(PyStr(sd))

validateOrderType(orderType) ==
    IF ~Truthy(orderType) \/ orderType.t # "str"
    THEN Fail("Order type must be a non-empty string.")
    ELSE LET ot == upper(strip(orderType.s))
         IN  IF ot \notin VALID_ORDER_TYPES THEN Fail("Order type must be one of")
             ELSE Ok(PyStr(ot))

validateQuantity(quantity) ==
    LET q == float(quantity)
    IN  IF ~q.ok THEN Fail("Quantity must be a number")
        ELSE IF LeZero(q.v) THEN Fail("Quantity must be positive")
             ELSE Ok(q.v)

validatePrice(price, orderType) ==
    IF orderType = PyStr(S_LIMIT)
    THEN IF price.t = "None" THEN Fail("Price is required for LIMIT orders.")
         ELSE LET p == float(price)
              IN  IF ~p.ok THEN Fail("Price must be a number")
                  ELSE IF LeZero(p.v) THEN Fail("Price must be positive")
                       ELSE Ok(p.v)
    ELSE Ok(PyNone)

----------------------------------------------------------------------------
(* bot/orders.py: placeOrder up to the call of client.post *)

\* The five validators in the order placeOrder calls them.  The first
\* ValueError ends the call: field names the validator that raised, ran the
\* validators invoked so far, vals the validated values on success.
NoVals == [symbol |-> PyNone, side |-> PyNone, orderType |-> PyNone,
           quantity |-> PyNone, price |-> PyNone]

Rejected(field, err, invoked) ==
    [ok |-> FALSE, field |-> field, err |-> err, ran |-> invoked, vals |-> NoVals]

Accepted(vals, invoked) ==
    [ok |-> TRUE, field |-> "", err |-> "", ran |-> invoked, vals |-> vals]

\* placeOrder without its call of validatePrice
validationOrder_WithoutPrice == <<"symbol", "side", "orderType", "quantity">>

\* placeOrder validating the side before the symbol
validationOrder_SideFirst == <<"side", "symbol", "orderType", "quantity", "price">>

\* the validator calls of placeOrder, in the order of its statements
validationOrder == <<"symbol", "side", "orderType", "quantity", "price">>

\* one of those statements: the validator applied to its raw argument;
\* validatePrice is given the validated orderType
applyValidator(field, r, vals) ==
    CASE field = "symbol" -> validateSymbol(r.symbol)
      [] field = "side" -> validateSide(r.side)
      [] field = "orderType" -> validateOrderType(r.orderType)
      [] field = "quantity" -> validateQuantity(r.quantity)
      [] field = "price" -> validatePrice(r.price, vals.orderType)

RECURSIVE validateFrom(_, _, _)
validateFrom(i, r, vals) ==
    IF i > Len(validationOrder) THEN Accepted(vals, validationOrder)
    ELSE LET field == validationOrder[i]
             res == applyValidator(field, r, vals)
         IN  IF ~res.ok THEN Rejected(field, res.err, SubSeq(validationOrder, 1, i))
             ELSE validateFrom(i + 1, r, [vals EXCEPT ![field] = res.v])

validateOrder(r) == validateFrom(1, r, NoVals)

\* a mapping is a sequence of entries, in insertion order
Entry(k, v) == [k |-> k, v |-> v]
Keys(m) == {m[i].k : i \in 1..Len(m)}
Get(m, k) == m[CHOOSE i \in 1..Len(m) : m[i].k = k].v

\* params[k] = v: replaces the value of a present key in place, else appends
Put(m, k, v) ==
    IF k \in Keys(m)
    THEN [i \in 1..Len(m) |-> IF m[i].k = k THEN Entry(k, v) ELSE m[i]]
    ELSE Append(m, Entry(k, v))

\* placeOrder setting timeInForce outside the LIMIT branch
buildParams_AlwaysTimeInForce(v) ==
    LET base == <<Entry("symbol", v.symbol), Entry("side", v.side),
                  Entry("type", v.orderType), Entry("quantity", v.quantity)>>
    IN  IF v.orderType = PyStr(S_LIMIT)
        THEN Put(Put(base, "price", v.price), "timeInForce", PyStr(S_GTC))
        ELSE Put(base, "timeInForce", PyStr(S_GTC))

\* the endpoint parameters placeOrder builds from the validated values
buildParams(v) ==
    LET base == <<Entry("symbol", v.symbol), Entry("side", v.side),
                  Entry("type", v.orderType), Entry("quantity", v.quantity)>>
    IN  IF v.orderType = PyStr(S_LIMIT)
        THEN Put(Put(base, "price", v.price), "timeInForce", PyStr(S_GTC))
        ELSE base

----------------------------------------------------------------------------
(* bot/client.py *)

REQUEST_TIMEOUT == 10
MAX_RETRIES == 3

\* The exception classes that occur, each with the classes it is an instance
\* of.  requests.exceptions.RequestException derives from IOError, which is
\* OSError, which EnvironmentError is an alias of.
Bases(cls) ==
    CASE cls = "ConnectionError" -> {"ConnectionError", "RequestException", "OSError"}
      [] cls = "ConnectTimeout" ->
            {"ConnectTimeout", "ConnectionError", "Timeout", "RequestException", "OSError"}
      [] cls = "ReadTimeout" -> {"ReadTimeout", "Timeout", "RequestException", "OSError"}
      [] cls = "TooManyRedirects" -> {"TooManyRedirects", "RequestException", "OSError"}
      [] cls = "HTTPError" -> {"HTTPError", "RequestException", "OSError"}
      [] cls = "EnvironmentError" -> {"OSError"}
      [] OTHER -> {cls}

\* an exception object: its class, the attempt of the request during which it
\* was raised (0 outside the retry loop), its message, and the three fields
\* of a BinanceAPIError
Exc(cls, at, msg) ==
    [cls |-> cls, at |-> at, msg |-> msg,
     statusCode |-> 0, code |-> PyNone, message |-> PyNone]
NoExc == Exc("None", 0, "")

BinanceAPIError(statusCode, code, message) ==
    [cls |-> "BinanceAPIError", at |-> 0, msg |-> "Binance API Error",
     statusCode |-> statusCode, code |-> code, message |-> message]

IsInstance(exc, cls) == cls \in Bases(exc.cls)

NoOutcome == [kind |-> "none", value |-> PyNone, exc |-> NoExc]
Returned(v) == [kind |-> "return", value |-> v, exc |-> NoExc]
Raised(e) == [kind |-> "raise", value |-> PyNone, exc |-> e]

\* str(): the characters of a value
RECURSIVE NatChars(_)
NatChars(x) ==
    IF x < 10 THEN <<Digits[x + 1]>>
    ELSE Append(NatChars(x \div 10), Digits[(x % 10) + 1])

IntChars(x) == IF x < 0 THEN <<"-">> \o NatChars(-x) ELSE NatChars(x)

pystr(v) ==
    CASE v.t = "str" -> v.s
      [] v.t = "int" -> IntChars(v.n)
      [] v.t = "float" -> IntChars(v.n) \o <<".", "0">>
      [] v.t = "nan" -> <<"n", "a", "n">>
      [] v.t = "None" -> <<"N", "o", "n", "e">>

\* hmac.new(key, msg, sha256).hexdigest(): hexadecimal text determined by
\* key and msg, kept as the pair it was computed from
HmacSha256(key, msg) == [t |-> "hexdigest", s |-> <<>>, n |-> 0, key |-> key, msg |-> msg]

\* urlencode(): key=value pairs in the mapping's order, each value turned
\* into text by str(); the characters occurring here need no percent-escape
\* except the space, which quote_plus turns into "+"; a hex digest is sent
\* as it is
QuotePlus(s) == [i \in 1..Len(s) |-> IF s[i] = " " THEN "+" ELSE s[i]]
urlencode(m) ==
    [i \in 1..Len(m) |->
        <<m[i].k, IF m[i].v.t = "hexdigest" THEN m[i].v ELSE QuotePlus(pystr(m[i].v))>>]

\* a _sign whose digest covers the timestamp alone
sign_TimestampOnly(m, secret, time) ==
    LET stamped == Put(m, "timestamp", PyInt(time * 1000))
    IN  Put(stamped, "signature",
            HmacSha256(secret.s, urlencode(<<Entry("timestamp", PyInt(time * 1000))>>)))

\* a _sign that adds the timestamp after computing the signature
sign_StampAfter(m, secret, time) ==
    Put(Put(m, "signature", HmacSha256(secret.s, urlencode(m))),
        "timestamp", PyInt(time * 1000))

\* _sign: adds timestamp, then signature over the urlencoded mapping, to the
\* mapping it was given and returns that mapping
sign(m, secret, time) ==
    LET stamped == Put(m, "timestamp", PyInt(time * 1000))
    IN  Put(stamped, "signature", HmacSha256(secret.s, urlencode(stamped)))

\* a decoded JSON body: a mapping with its entries, or a value that is not
\* a mapping; NotJson is a body that resp.json() rejects
JsonDict(items) == [kind |-> "dict", items |-> items]
JsonList == [kind |-> "list", items |-> <<>>]
NotJson == [kind |-> "invalid", items |-> <<>>]

\* resp.text: its content abstracted to a name, with its length
Text(name, len) == [t |-> "text", s |-> <<name>>, n |-> len]
\* resp.text[:k]
Excerpt(text, k) == [text EXCEPT !.n = IF text.n < k THEN text.n ELSE k]

Response(status, text, body) == [status_code |-> status, text |-> text, body |-> body]
NoResponse == Response(0, Text("", 0), NotJson)

\* x < 0 on a JSON value: a TypeError unless x is a number
IsNumber(v) == v.t \in {"int", "float", "nan"}
LtZero(v) == v.t \in {"int", "float"} /\ v.n < 0

\* resp.raise_for_status(): HTTPError for a 4xx or 5xx status
raiseForStatus(resp) == 400 <= resp.status_code /\ resp.status_code < 600

\* _request from the end of the retry loop: decode the body and classify
classify(resp) ==
    LET data == resp.body
        isDict == data.kind = "dict"
        hasCode == isDict /\ "code" \in Keys(data.items)
    IN  IF data.kind = "invalid"
        THEN IF raiseForStatus(resp) THEN Raised(Exc("HTTPError", 0, "HTTP status"))
             ELSE Returned(JsonDict(<<>>))
        ELSE IF resp.status_code < 400 /\ hasCode /\ ~IsNumber(Get(data.items, "code"))
        THEN Raised(Exc("TypeError", 0, "'<' not supported"))
        ELSE IF resp.status_code >= 400 \/ (hasCode /\ LtZero(Get(data.items, "code")))
        THEN IF ~isDict THEN Raised(Exc("AttributeError", 0, "no attribute 'get'"))
             ELSE Raised(BinanceAPIError(
                      resp.status_code,
                      IF hasCode THEN Get(data.items, "code")
                      ELSE PyInt(resp.status_code),
                      IF "msg" \in Keys(data.items) THEN Get(data.items, "msg")
                      ELSE Excerpt(resp.text, 200)))
        ELSE Returned(data)

\* a retry loop that catches requests.exceptions.RequestException
IsTransient_AnyRequestException(exc) == IsInstance(exc, "RequestException")

\* the except clauses of the retry loop: the exception classes that are retried
IsTransient(exc) == IsInstance(exc, "ConnectionError") \/ IsInstance(exc, "Timeout")

\* a retry loop that keeps the first exception it caught
catchTransient_KeepsFirst(last, exc) == IF last = NoExc THEN exc ELSE last

\* lastExc = exc in the except clauses
catchTransient(last, exc) == exc

\* a retry loop over range(1, MAX_RETRIES)
hasNextAttempt_OneShort(n) == n + 1 < MAX_RETRIES

\* the for loop over range(1, MAX_RETRIES + 1) has a further iteration
hasNextAttempt(n) == n + 1 < MAX_RETRIES + 1

\* a retry loop that sleeps after every caught failure, the last included
backoff_AfterEveryFailure(n) == <<1 * n>>

\* the backoff: if attempt < MAX_RETRIES, time.sleep(1 * attempt)
backoff(n) == IF n < MAX_RETRIES THEN <<1 * n>> ELSE <<>>

\* an __init__ that tests the key only
credentialsMissing_KeyOnly(key, secret) == ~Truthy(key)

\* the test of __init__: not self.apiKey or not self.apiSecret
credentialsMissing(key, secret) == ~Truthy(key) \/ ~Truthy(secret)

\* dict(params or {}): a new mapping holding the entries of the given one
dictCopy(m) == m

\* a _request with params = params or {}: the mapping _sign writes to is
\* the caller's
callerMapping_NoCopy(given, own) == own

\* what the mapping given to _request holds once _sign has written to
\* _request's own mapping: the two are different objects
callerMapping(given, own) == given

\* a retry loop that signs again at every attempt
attemptParams_SignedAgain(p, secret, time) == sign(p, secret, time)

\* the mapping an attempt hands to session.request: the one signed before
\* the loop; the loop body neither calls _sign nor reads the clock
attemptParams(p, secret, time) == p

----------------------------------------------------------------------------
(* bot/orders.py after client.post, and cli.py *)

\* dict.get(k, default)
GetOr(m, k, default) == IF k \in Keys(m) THEN Get(m, k) ELSE default

S_NA == <<"N", "/", "A">>

\* placeOrder after client.post: response.get(...) for the log line raises
\* AttributeError on a value that is not a mapping; else response is returned
afterPost(out) ==
    IF out.kind = "return" /\ out.value.kind # "dict"
    THEN Raised(Exc("AttributeError", 0, "no attribute 'get'"))
    ELSE out

\* f"{s:<22s}": s padded with spaces on the right up to 22 characters
ljust22(s) == s \o [i \in 1..(22 - Len(s)) |-> " "]

\* the rows of formatOrderResponse: label and response key, top to bottom
responseRows ==
    <<<<"Order ID", "orderId">>, <<"Client OID", "clientOrderId">>,
      <<"Symbol", "symbol">>, <<"Side", "side">>, <<"Type", "type">>,
      <<"Status", "status">>, <<"Orig Qty", "origQty">>,
      <<"Executed Qty", "executedQty">>, <<"Avg Price", "avgPrice">>,
      <<"Price", "price">>, <<"Time in Force", "timeInForce">>>>

\* a formatOrderResponse that calls resp.get(key) without a default
formatOrderResponse_NoDefault(resp) ==
    [i \in 1..Len(responseRows) |->
        Entry(responseRows[i][1],
              ljust22(pystr(GetOr(resp.items, responseRows[i][2], PyNone))))]

\* formatOrderResponse: for each row, str() of the response's value, or of
\* "N/A" when the response lacks the key
formatOrderResponse(resp) ==
    [i \in 1..Len(responseRows) |->
        Entry(responseRows[i][1],
              ljust22(pystr(GetOr(resp.items, responseRows[i][2], PyStr(S_NA)))))]

\* the except clauses of main, top to bottom: the class caught and the
\* kind of error printed
handlers ==
    <<<<"ValueError", "Validation Error">>, <<"OSError", "Configuration Error">>,
      <<"BinanceAPIError", "Binance API Error">>, <<"Exception", "Unexpected Error">>>>

Catches(cls, exc) == cls = "Exception" \/ IsInstance(exc, cls)

NoReport == [kind |-> "none", display |-> <<>>]

\* main from the return of placeOrder: the response display and the success
\* line, or the message of the first except clause that catches the exception
mainReport(out) ==
    IF out.kind = "return"
    THEN [kind |-> "Order placed successfully", display |-> formatOrderResponse(out.value)]
    ELSE LET h == CHOOSE i \in 1..Len(handlers) :
                      /\ Catches(handlers[i][1], out.exc)
                      /\ \A j \in 1..(i - 1) : ~Catches(handlers[j][1], out.exc)
         IN  [kind |-> handlers[h][2], display |-> <<>>]

----------------------------------------------------------------------------
(* The inputs of a run *)

\* the constructor arguments and the two environment variables
CredArgs == {PyNone, PyStr(<<"k">>)}
EnvValues == {PyStr(<<>>), PyStr(<<"e">>)}

\* the raw order fields placeOrder is called with
RawSymbols == {PyStr(<<" ", "b", "t", "c", "u", "s", "d", "t">>), PyStr(S_USDT),
               PyStr(<<"B", "T", "C", "-", "U", "S", "D", "T">>), PyNone}
RawSides == {PyStr(<<"b", "u", "y">>), PyStr(S_SELL), PyStr(<<"H", "O", "L", "D">>)}
RawOrderTypes == {PyStr(<<"l", "i", "m", "i", "t">>), PyStr(S_MARKET),
                  PyStr(<<"S", "T", "O", "P">>)}
RawQuantities == {PyFloat(1), PyStr(<<"2">>), PyFloat(0), PyStr(<<"x">>)}
RawPrices == {PyNone, PyFloat(5), PyFloat(-1), PyStr(<<"a", "b", "c">>), PyNaN}

RawOrders == [symbol : RawSymbols, side : RawSides, orderType : RawOrderTypes,
              quantity : RawQuantities, price : RawPrices]
NoOrder == NoVals

\* what one call of session.request can end in: an exception of one of these
\* classes, or a response
RequestExceptions == {"ConnectionError", "ConnectTimeout", "ReadTimeout", "TooManyRedirects"}

S_MSG == <<"b", "a", "d">>
Bodies == {NotJson, JsonList,
           JsonDict(<<Entry("orderId", PyInt(7)), Entry("status", PyStr(<<"N", "E", "W">>))>>),
           JsonDict(<<Entry("code", PyInt(-1021)), Entry("msg", PyStr(S_MSG))>>),
           JsonDict(<<Entry("code", PyInt(-2019))>>),
           JsonDict(<<Entry("msg", PyStr(S_MSG))>>),
           JsonDict(<<Entry("code", PyInt(200)), Entry("msg", PyStr(S_MSG))>>)}
LongBodies == {NotJson, JsonDict(<<Entry("code", PyInt(-2019))>>)}
Responses == {Response(st, Text("short", 150), b) : st \in {200, 400, 502}, b \in Bodies}
               \cup {Response(st, Text("long", 250), b) :
                        st \in {200, 400, 502}, b \in LongBodies}

ExcResult(cls, n) == [kind |-> "exc", exc |-> Exc(cls, n, cls), resp |-> NoResponse]
RespResult(resp) == [kind |-> "resp", exc |-> NoExc, resp |-> resp]
NetResults(n) == {ExcResult(cls, n) : cls \in RequestExceptions}
                   \cup {RespResult(r) : r \in Responses}

\* whether the exchange accepted the order of a call of session.request: it
\* did when it answered with the order; when the answer did not arrive
\* within the read timeout it may or may not have
IsOrder(resp) ==
    /\ resp.status_code < 400
    /\ resp.body.kind = "dict"
    /\ "orderId" \in Keys(resp.body.items)
Processed(res) ==
    IF res.kind = "resp" THEN {IsOrder(res.resp)}
    ELSE IF res.exc.cls = "ReadTimeout" THEN {TRUE, FALSE}
    ELSE {FALSE}

\* the seconds one call of session.request takes: a timeout takes the
\* whole REQUEST_TIMEOUT
Elapsed(res) ==
    IF res.kind = "exc" /\ IsInstance(res.exc, "Timeout") THEN REQUEST_TIMEOUT ELSE 0

RECURSIVE Sum(_)
Sum(s) == IF s = <<>> THEN 0 ELSE s[1] + Sum(Tail(s))

----------------------------------------------------------------------------
(* The run: BinanceClient(), placeOrder, and the attempts of _request *)

Init ==
    /\ pc = "init"
    /\ apiKey = PyNone
    /\ apiSecret = PyNone
    /\ session = FALSE
    /\ raw = NoOrder
    /\ ran = <<>>
    /\ callerParams = <<>>
    /\ params = <<>>
    /\ attempt = 0
    /\ lastExc = NoExc
    /\ calls = <<>>
    /\ sleeps = <<>>
    /\ now = 0
    /\ outcome = NoOutcome
    /\ placed = NoOutcome
    /\ report = NoReport
    /\ accepted = 0

\* BinanceClient.__init__; when it raises, main reports the error and exits
NewClient ==
    /\ pc = "init"
    /\ \E keyArg \in CredArgs, secretArg \in CredArgs,
          envKey \in EnvValues, envSecret \in EnvValues :
          LET key == IF Truthy(keyArg) THEN keyArg ELSE envKey
              secret == IF Truthy(secretArg) THEN secretArg ELSE envSecret
          IN  /\ apiKey' = key
              /\ apiSecret' = secret
              /\ IF credentialsMissing(key, secret)
                 THEN /\ outcome' = Raised(Exc("EnvironmentError", 0,
                                               "Binance API credentials not found."))
                      /\ session' = FALSE
                      /\ pc' = "done"
                      /\ report' = mainReport(outcome')
                 ELSE /\ outcome' = outcome
                      /\ session' = TRUE
                      /\ pc' = "ready"
                      /\ report' = report
    /\ UNCHANGED <<raw, ran, callerParams, params, attempt, lastExc, calls, sleeps, now,
                   placed, accepted>>

\* placeOrder up to the first network call: validation, the endpoint
\* parameters, client.post, and in _request the copy of the mapping and _sign;
\* when a validator raises, main reports the error and exits
PlaceOrder ==
    /\ pc = "ready"
    /\ \E r \in RawOrders :
          LET v == validateOrder(r)
              built == buildParams(v.vals)
          IN  /\ raw' = r
              /\ ran' = v.ran
              /\ IF ~v.ok
                 THEN /\ outcome' = Raised(Exc("ValueError", 0, v.err))
                      /\ placed' = outcome'
                      /\ report' = mainReport(placed')
                      /\ pc' = "done"
                      /\ UNCHANGED <<callerParams, params, attempt>>
                 ELSE /\ params' = sign(dictCopy(built), apiSecret, now)
                      /\ callerParams' = callerMapping(built, params')
                      /\ attempt' = 1
                      /\ pc' = "request"
                      /\ UNCHANGED <<outcome, placed, report>>
    /\ UNCHANGED <<apiKey, apiSecret, session, lastExc, calls, sleeps, now, accepted>>

\* one iteration of _request's retry loop: the call of session.request and
\* what follows it; after the loop, the classification of the response, the
\* rest of placeOrder, and main's display of the result or report of the error
Attempt ==
    /\ pc = "request"
    /\ \E res \in NetResults(attempt) : \E took \in Processed(res) :
          /\ calls' = Append(calls, [method |-> "POST",
                                     data |-> urlencode(attemptParams(params, apiSecret, now)),
                                     attempt |-> attempt, result |-> res])
          /\ accepted' = IF took THEN accepted + 1 ELSE accepted
          /\ IF res.kind = "exc" /\ IsTransient(res.exc)
             THEN /\ lastExc' = catchTransient(lastExc, res.exc)
                  /\ sleeps' = sleeps \o backoff(attempt)
                  /\ now' = now + Elapsed(res) + Sum(backoff(attempt))
                  /\ IF hasNextAttempt(attempt)
                     THEN /\ attempt' = attempt + 1
                          /\ pc' = "request"
                          /\ UNCHANGED <<outcome, placed, report>>
                     ELSE /\ attempt' = attempt
                          /\ pc' = "done"
                          /\ outcome' = Raised(lastExc')
                          /\ placed' = afterPost(outcome')
                          /\ report' = mainReport(placed')
             ELSE /\ UNCHANGED <<lastExc, sleeps, attempt>>
                  /\ now' = now + Elapsed(res)
                  /\ pc' = "done"
                  /\ outcome' = IF res.kind = "exc" THEN Raised(res.exc)
                                ELSE classify(res.resp)
                  /\ placed' = afterPost(outcome')
                  /\ report' = mainReport(placed')
    /\ UNCHANGED <<apiKey, apiSecret, session, raw, ran, callerParams, params>>

Next == NewClient \/ PlaceOrder \/ Attempt

Spec == Init /\ [][Next]_vars

----------------------------------------------------------------------------
(* The validators on their own: every input up to a length, one call *)

SymbolAlphabet == {"U", "S", "D", "t", "1", " "}
SymbolInputs ==
    {PyNone, PyFloat(1)}
      \cup {PyStr(s) : s \in UNION {[1..n -> SymbolAlphabet] : n \in 0..MaxSymbolLen}}

PriceAlphabet == {"1", "0", "-", "n", "a", " ", "x"}
PriceInputs ==
    {PyNone, PyNaN}
      \cup {PyFloat(x) : x \in (0 - MaxPrice)..MaxPrice}
      \cup {PyStr(s) : s \in UNION {[1..n -> PriceAlphabet] : n \in 0..MaxPriceLen}}

FnInit(orders) ==
    /\ pc = "fn"
    /\ raw \in orders
    /\ apiKey = PyNone
    /\ apiSecret = PyNone
    /\ session = FALSE
    /\ ran = <<>>
    /\ callerParams = <<>>
    /\ params = <<>>
    /\ attempt = 0
    /\ lastExc = NoExc
    /\ calls = <<>>
    /\ sleeps = <<>>
    /\ now = 0
    /\ outcome = NoOutcome
    /\ placed = NoOutcome
    /\ report = NoReport
    /\ accepted = 0

\* a call of one validator: its return value or the ValueError it raises
FnCall(result) ==
    /\ pc = "fn"
    /\ pc' = "done"
    /\ outcome' = IF result.ok THEN Returned(result.v)
                  ELSE Raised(Exc("ValueError", 0, result.err))
    /\ UNCHANGED <<apiKey, apiSecret, session, raw, ran, callerParams, params, attempt,
                   lastExc, calls, sleeps, now, placed, report, accepted>>

SymbolInit == FnInit({[NoOrder EXCEPT !.symbol = s] : s \in SymbolInputs})
CallValidateSymbol == FnCall(validateSymbol(raw.symbol))
SymbolSpec == SymbolInit /\ [][CallValidateSymbol]_vars

PriceInit ==
    FnInit({[NoOrder EXCEPT !.price = p, !.orderType = PyStr(ot)] :
               p \in PriceInputs, ot \in VALID_ORDER_TYPES})
CallValidatePrice == FnCall(validatePrice(raw.price, raw.orderType))
PriceSpec == PriceInit /\ [][CallValidatePrice]_vars

----------------------------------------------------------------------------
(* _sign on its own: _request's copy of a caller's mapping, one call *)

\* the mappings placeOrder builds, and the empty mapping
SignSymbols == {PyStr(<<"B", "T", "C">> \o S_USDT), PyStr(<<"E", "T", "H">> \o S_USDT)}
SignInputs ==
    {<<>>}
      \cup {buildParams([symbol |-> s, side |-> PyStr(sd), orderType |-> PyStr(S_MARKET),
                         quantity |-> PyFloat(q), price |-> PyNone]) :
               s \in SignSymbols, sd \in VALID_SIDES, q \in 1..MaxPrice}
      \cup {buildParams([symbol |-> s, side |-> PyStr(sd), orderType |-> PyStr(S_LIMIT),
                         quantity |-> PyFloat(q), price |-> p]) :
               s \in SignSymbols, sd \in VALID_SIDES, q \in 1..MaxPrice,
               p \in {PyFloat(x) : x \in 1..MaxPrice} \cup {PyNaN}}
SignSecrets == {PyStr(<<"k">>), PyStr(<<"e">>)}

SignInit ==
    /\ pc = "fn"
    /\ callerParams \in SignInputs
    /\ params = dictCopy(callerParams)
    /\ apiKey = PyStr(<<"k">>)
    /\ apiSecret \in SignSecrets
    /\ session = TRUE
    /\ now \in 0..MaxClock
    /\ raw = NoOrder
    /\ ran = <<>>
    /\ attempt = 0
    /\ lastExc = NoExc
    /\ calls = <<>>
    /\ sleeps = <<>>
    /\ outcome = NoOutcome
    /\ placed = NoOutcome
    /\ report = NoReport
    /\ accepted = 0

\* params = self._sign(params): params is the mapping _sign was given, as
\* _sign leaves it; outcome holds the mapping _sign returns, which is that
\* same mapping
CallSign ==
    /\ pc = "fn"
    /\ pc' = "done"
    /\ params' = sign(params, apiSecret, now)
    /\ outcome' = Returned(params')
    /\ UNCHANGED <<apiKey, apiSecret, session, raw, ran, callerParams, attempt, lastExc,
                   calls, sleeps, now, placed, report, accepted>>

SignSpec == SignInit /\ [][CallSign]_vars

----------------------------------------------------------------------------
(* Properties *)

\* a call of session.request that ended in a connection error or a timeout
ConnectionOrTimeout(call) ==
    /\ call.result.kind = "exc"
    /\ call.result.exc.cls \in {"ConnectionError", "ConnectTimeout", "ReadTimeout"}

GotResponse(call) == call.result.kind = "resp"

\* C1: within one logical request, an attempt that fails with a connection
\* error or a timeout while fewer than 3 attempts have been made leaves the
\* request at its next attempt; no more than 3 network calls are made; and
\* when an attempt returns a response, the request ends with the
\* classification of that attempt's response, the earlier transient faults
\* not being reported.
C1_RetryWithinThreeAttempts ==
    /\ Len(calls) <= 3
    /\ \A i \in 1..Len(calls) :
          /\ calls[i].attempt = i
          /\ i < Len(calls) => ConnectionOrTimeout(calls[i])
    /\ (calls # <<>> /\ ConnectionOrTimeout(calls[Len(calls)]) /\ Len(calls) < 3)
          => /\ pc = "request"
             /\ attempt = Len(calls) + 1
             /\ outcome = NoOutcome
    /\ pc = "request" => Len(calls) < 3
    /\ (calls # <<>> /\ GotResponse(calls[Len(calls)]))
          => /\ pc = "done"
             /\ outcome = classify(calls[Len(calls)].result.resp)
             /\ \A i \in 1..Len(calls) :
                   ConnectionOrTimeout(calls[i]) => outcome.exc # calls[i].result.exc

\* two transient faults, then a response on the third attempt, returned
C1_Witness ==
    /\ pc = "done"
    /\ Len(calls) = 3
    /\ ConnectionOrTimeout(calls[1])
    /\ ConnectionOrTimeout(calls[2])
    /\ GotResponse(calls[3])
    /\ outcome.kind = "return"

\* C2: only connection errors and timeouts are retried.  An attempt that
\* ends in anything else (a response of any status and body, or another
\* exception of the network call) is the last network call of the request,
\* and the request's outcome is the one of that attempt.
C2_OnlyTransientRetried ==
    \A i \in 1..Len(calls) :
       ~ConnectionOrTimeout(calls[i])
          => /\ i = Len(calls)
             /\ pc = "done"
             /\ calls[i].result.kind = "exc" => outcome = Raised(calls[i].result.exc)
             /\ calls[i].result.kind = "resp" => outcome = classify(calls[i].result.resp)

\* an exception that is neither a connection error nor a timeout, raised by
\* the second attempt, ends the request
C2_Witness ==
    /\ pc = "done"
    /\ Len(calls) = 2
    /\ calls[2].result.kind = "exc"
    /\ calls[2].result.exc.cls = "TooManyRedirects"
    /\ outcome.kind = "raise"
    /\ outcome.exc.cls = "TooManyRedirects"

\* C3: when all 3 attempts fail with a connection error or a timeout,
\* _request raises the exception of the 3rd attempt and returns nothing.
C3_RaisesLastException ==
    (Len(calls) = 3 /\ \A i \in 1..3 : ConnectionOrTimeout(calls[i]))
       => /\ pc = "done"
          /\ outcome.kind = "raise"
          /\ outcome.exc = calls[3].result.exc
          /\ outcome.exc.at = 3

\* three transient faults of different classes: the third one is raised
C3_Witness ==
    /\ Len(calls) = 3
    /\ calls[1].result.exc.cls = "ConnectionError"
    /\ calls[2].result.exc.cls = "ConnectTimeout"
    /\ calls[3].result.exc.cls = "ReadTimeout"
    /\ outcome.kind = "raise"
    /\ outcome.exc.cls = "ReadTimeout"

\* the five order fields in the order the specification fixes
FieldOrder == <<"symbol", "side", "orderType", "quantity", "price">>

\* the validator of a field rejects the field's raw value; the price is
\* judged against the validated order type
FieldResult(field, r) ==
    applyValidator(field, r, [NoVals EXCEPT !.orderType = validateOrderType(r.orderType).v])
FieldFails(field, r) == ~FieldResult(field, r).ok

ValidationError == outcome.kind = "raise" /\ outcome.exc.cls = "ValueError"

\* C4: whenever one of the five order fields fails validation, placeOrder
\* raises a ValidationError and no network call and no signing has happened;
\* a network call is made only after all five validators have run.
C4_ValidationBeforeNetwork ==
    /\ (ran # <<>> /\ \E i \in 1..5 : FieldFails(FieldOrder[i], raw))
          => /\ pc = "done"
             /\ ValidationError
             /\ calls = <<>>
             /\ params = <<>>
    /\ calls # <<>> => ran = FieldOrder

\* a LIMIT order without a price: rejected with no network call made
C4_Witness ==
    /\ pc = "done"
    /\ raw.orderType = PyStr(<<"l", "i", "m", "i", "t">>)
    /\ raw.price = PyNone
    /\ \A i \in 1..4 : ~FieldFails(FieldOrder[i], raw)
    /\ ValidationError
    /\ outcome.exc.msg = "Price is required for LIMIT orders."
    /\ calls = <<>>

\* the transmitted form body: its keys and the value sent under a key
SentKeys(call) == {call.data[j][1] : j \in 1..Len(call.data)}
SentValue(call, k) == call.data[CHOOSE j \in 1..Len(call.data) : call.data[j][1] = k][2]

\* C7: every order placeOrder transmits carries symbol, side, type and
\* quantity, and carries price and timeInForce = "GTC" exactly when the
\* validated order type is LIMIT; a MARKET order carries neither, whatever
\* raw price was supplied.
C7_PriceIffLimit ==
    \A i \in 1..Len(calls) :
       LET limit == upper(strip(raw.orderType.s)) = S_LIMIT
       IN  /\ {"symbol", "side", "type", "quantity"} \subseteq SentKeys(calls[i])
           /\ SentValue(calls[i], "type") = (IF limit THEN S_LIMIT ELSE S_MARKET)
           /\ "price" \in SentKeys(calls[i]) <=> limit
           /\ "timeInForce" \in SentKeys(calls[i]) <=> limit
           /\ limit => SentValue(calls[i], "timeInForce") = S_GTC

\* a MARKET order called with a price is transmitted without it
C7_Witness ==
    /\ calls # <<>>
    /\ raw.orderType = PyStr(S_MARKET)
    /\ raw.price = PyFloat(5)
    /\ "price" \notin SentKeys(calls[1])
    /\ "timeInForce" \notin SentKeys(calls[1])

\* C10: when several fields are invalid at once, placeOrder reports the
\* violation of the first invalid field in the order symbol, side,
\* orderType, quantity, price, and the validators of the later fields are
\* not run; the reported error is determined by the raw inputs.
C10_FirstViolationReported ==
    ran # <<>> =>
       LET bad == {i \in 1..5 : FieldFails(FieldOrder[i], raw)}
       IN  IF bad = {} THEN ran = FieldOrder /\ ~ValidationError
           ELSE LET first == CHOOSE i \in bad : \A j \in bad : i <= j
                IN  /\ ValidationError
                    /\ outcome.exc.msg = FieldResult(FieldOrder[first], raw).err
                    /\ ran = SubSeq(FieldOrder, 1, first)

\* symbol, side and quantity all invalid: the symbol's violation is
\* reported and only the symbol validator has run
C10_Witness ==
    /\ pc = "done"
    /\ FieldFails("symbol", raw)
    /\ FieldFails("side", raw)
    /\ FieldFails("quantity", raw)
    /\ outcome.exc.msg = "Symbol must contain only letters"
    /\ ran = <<"symbol">>

\* the trimmed, upper-cased form of a str symbol
Normalized(symbol) == upper(strip(symbol.s))

\* C9: validateSymbol accepts an input exactly when its trimmed,
\* upper-cased form is a non-empty all-alphabetic string that ends with
\* "USDT" and has length >= 5, and then returns that form; every other
\* input is rejected with a ValidationError.
C9_SymbolAccepted ==
    pc = "done" =>
       LET acceptable ==
              /\ raw.symbol.t = "str"
              /\ Normalized(raw.symbol) # <<>>
              /\ \A i \in 1..Len(Normalized(raw.symbol)) :
                    Normalized(raw.symbol)[i] \in Letters
              /\ Len(Normalized(raw.symbol)) >= 5
              /\ \A i \in 1..4 :
                    Normalized(raw.symbol)[Len(Normalized(raw.symbol)) - 4 + i] = S_USDT[i]
       IN  IF acceptable THEN outcome = Returned(PyStr(Normalized(raw.symbol)))
           ELSE ValidationError

\* a lower-case symbol with surrounding whitespace is accepted and returned
\* trimmed and upper-cased
C9_Witness ==
    /\ pc = "done"
    /\ raw.symbol = PyStr(<<" ", "t", "U", "S", "D", "t">>)
    /\ outcome = Returned(PyStr(<<"T", "U", "S", "D", "T">>))

\* the bare "USDT" is rejected as too short
C9_WitnessBare ==
    /\ pc = "done"
    /\ raw.symbol = PyStr(<<"U", "S", "D", "t">>)
    /\ outcome = Raised(Exc("ValueError", 0, "Symbol too short"))

\* C8: validatePrice raises a ValidationError for every LIMIT order whose
\* price is absent, non-numeric or <= 0 and returns the positive number
\* otherwise; for every MARKET order it returns no price and never fails.
C8_PriceValidated ==
    pc = "done" =>
       IF raw.orderType = PyStr(S_LIMIT)
       THEN IF \/ raw.price.t = "None"
               \/ ~float(raw.price).ok
               \/ LeZero(float(raw.price).v)
            THEN ValidationError
            ELSE /\ outcome.kind = "return"
                 /\ outcome.value.t = "float"
                 /\ outcome.value.n > 0
       ELSE outcome = Returned(PyNone)

\* the response of the request's last network call, when it ended in one
LastResponse == calls[Len(calls)].result.resp
Responded == calls # <<>> /\ GotResponse(calls[Len(calls)])

\* C5: a response whose body parses as JSON ends in the ApiError with
\* httpStatus = the HTTP status, apiCode = the body's code (the HTTP status
\* if absent) and message = the body's msg (a raw-body excerpt if absent)
\* exactly when the HTTP status is >= 400 or the body is a mapping with a
\* negative code; in every other case the parsed body is returned unchanged.
C5_JsonClassified ==
    (Responded /\ LastResponse.body.kind # "invalid") =>
       LET body == LastResponse.body
           has(k) == body.kind = "dict" /\ k \in Keys(body.items)
           negative == has("code") /\ LtZero(Get(body.items, "code"))
       IN  IF LastResponse.status_code >= 400 \/ negative
           THEN outcome = Raised(BinanceAPIError(
                              LastResponse.status_code,
                              IF has("code") THEN Get(body.items, "code")
                              ELSE PyInt(LastResponse.status_code),
                              IF has("msg") THEN Get(body.items, "msg")
                              ELSE Excerpt(LastResponse.text, 200)))
           ELSE outcome = Returned(body)

\* C6: a response whose body is not valid JSON ends, for every HTTP status,
\* in a failure that is not an ApiError; it never returns a success result.
C6_MalformedIsFatal ==
    (Responded /\ LastResponse.body.kind = "invalid") =>
       /\ outcome.kind = "raise"
       /\ outcome.exc.cls # "BinanceAPIError"

\* what __init__ raises when a credential is missing
ConfigurationError == Exc("EnvironmentError", 0, "Binance API credentials not found.")

\* C11: a client exists (its session is created, placeOrder and the
\* network can be reached) only with a non-empty key and a non-empty secret;
\* if either is empty after the fallback to the environment, construction
\* ends in the configuration error with no session created and no network
\* call made; and from the end of construction on no step changes either
\* credential.
C11_CredentialsInvariant ==
    /\ [](/\ session => Truthy(apiKey) /\ Truthy(apiSecret)
          /\ pc \in {"ready", "request"} => session
          /\ calls # <<>> => session
          /\ (pc # "init" /\ ~(Truthy(apiKey) /\ Truthy(apiSecret)))
                => /\ pc = "done"
                   /\ outcome = Raised(ConfigurationError)
                   /\ ~session
                   /\ calls = <<>>)
    /\ [][pc # "init" => apiKey' = apiKey /\ apiSecret' = apiSecret]_vars

\* construction fails for a missing secret although the key is present
C11_Witness ==
    /\ pc = "done"
    /\ Truthy(apiKey)
    /\ ~Truthy(apiSecret)
    /\ ~session
    /\ outcome = Raised(ConfigurationError)

\* the signature entry of a signed mapping
Signature(m) == Get(m, "signature")

\* two mappings with the same keys in the same order
SameKeys(m1, m2) ==
    /\ Len(m1) = Len(m2)
    /\ \A i \in 1..Len(m1) : m1[i].k = m2[i].k

Unsigned(call) == SelectSeq(call.data, LAMBDA pair : pair[1] # "signature")

\* C13: every transmitted request carries one signature, computed with the
\* client's secret over exactly the other transmitted parameters in the
\* order in which they are transmitted, the timestamp among them.
C13_SignatureCoversTransmitted ==
    \A i \in 1..Len(calls) :
       /\ Len(Unsigned(calls[i])) + 1 = Len(calls[i].data)
       /\ "signature" \in SentKeys(calls[i])
       /\ "timestamp" \in SentKeys(calls[i])
       /\ LET signature == SentValue(calls[i], "signature")
          IN  /\ signature.t = "hexdigest"
              /\ signature.key = apiSecret.s
              /\ signature.msg = Unsigned(calls[i])
              /\ \E j \in 1..Len(signature.msg) : signature.msg[j][1] = "timestamp"

\* a LIMIT order was transmitted: six order parameters and the timestamp
\* under the signature
C13_Witness ==
    /\ calls # <<>>
    /\ "price" \in SentKeys(calls[1])
    /\ Len(SentValue(calls[1], "signature").msg) = 7
    /\ calls[1].data[7][1] = "timestamp"
    /\ calls[1].data[8][1] = "signature"

\* the eleven fields of an order result
OrderResultFields ==
    {"orderId", "clientOrderId", "symbol", "side", "type", "status", "origQty",
     "executedQty", "avgPrice", "price", "timeInForce"}

\* C14 as stated: when placeOrder returns, the returned mapping holds each of
\* the eleven fields, with the value of the exchange's response or, where the
\* response lacks the field, "N/A".
C14_ReturnsOrderResult ==
    (pc = "done" /\ placed.kind = "return") =>
       /\ placed.value.kind = "dict"
       /\ \A k \in OrderResultFields :
             /\ k \in Keys(placed.value.items)
             /\ Get(placed.value.items, k)
                   = GetOr(LastResponse.body.items, k, PyStr(S_NA))

\* C14 amended: when placeOrder returns, it returns the mapping _request
\* returned with no entry added or changed (the decoded body of the
\* response, the empty mapping for a body that is not JSON); and the display
\* main prints of it has one row for each of the eleven fields, showing the
\* text of the response's value or, where the response lacks the field,
\* "N/A".
C14_DisplayIsOrderResult ==
    (pc = "done" /\ placed.kind = "return") =>
       /\ placed = outcome
       /\ placed.value = IF LastResponse.body.kind = "invalid" THEN JsonDict(<<>>)
                         ELSE LastResponse.body
       /\ report.kind = "Order placed successfully"
       /\ Len(report.display) = 11
       /\ {responseRows[i][2] : i \in 1..Len(responseRows)} = OrderResultFields
       /\ \A i \in 1..Len(report.display) :
             LET k == responseRows[i][2]
                 shown == report.display[i].v
             IN  /\ report.display[i].k = responseRows[i][1]
                 /\ Len(shown) = 22
                 /\ IF k \in Keys(placed.value.items)
                    THEN SubSeq(shown, 1, Len(pystr(Get(placed.value.items, k))))
                            = pystr(Get(placed.value.items, k))
                    ELSE SubSeq(shown, 1, 3) = S_NA /\ shown[4] = " "

\* an order response with orderId and status only has been returned as it
\* is and displayed with "N/A" for the executed quantity
C14_Witness ==
    /\ pc = "done"
    /\ placed.kind = "return"
    /\ Keys(placed.value.items) = {"orderId", "status"}
    /\ report.display[1] = Entry("Order ID", ljust22(<<"7">>))
    /\ report.display[8] = Entry("Executed Qty", ljust22(S_NA))

\* C15: when the run has ended, main has reported "Validation Error" only
\* if a validator rejected an order field and "Configuration Error" only if
\* a credential was missing at construction; an error raised once the
\* network had been called (a transport fault, a malformed response, an
\* error response of the exchange) is reported under neither of the two.
C15_ReportedUnderOwnKind ==
    pc = "done" =>
       /\ report.kind = "Validation Error"
             => /\ calls = <<>>
                /\ placed.kind = "raise"
                /\ placed.exc.cls = "ValueError"
                /\ ran # <<>>
       /\ report.kind = "Configuration Error"
             => /\ ~session
                /\ ~(Truthy(apiKey) /\ Truthy(apiSecret))
       /\ (calls # <<>> /\ placed.kind = "raise")
             => report.kind \notin {"Validation Error", "Configuration Error"}

\* C16 as stated: the n-th attempt's failing with a connection error or a
\* timeout is followed by a sleep of n base units, for n = 1, 2, 3, and
\* every sleep lies between two attempts, none after a call that completed.
C16_SleepsAfterEachFailure ==
    /\ \A n \in 1..Len(calls) :
          ConnectionOrTimeout(calls[n]) => Len(sleeps) >= n /\ sleeps[n] = n * 1
    /\ \A n \in 1..Len(sleeps) :
          /\ ConnectionOrTimeout(calls[n])
          /\ n < Len(calls) \/ pc = "request"

\* C16 amended: the n-th attempt's failing with a connection error or a
\* timeout is followed by a sleep of n base units when another attempt
\* remains, that is for n = 1, 2; the third failure ends the request with no
\* sleep; so the sleeps are exactly those between two attempts, the n-th of
\* n base units, and none follows a call that completed.
C16_LinearBackoffBetweenAttempts ==
    /\ Len(sleeps) = IF pc = "request" THEN Len(calls)
                     ELSE IF calls = <<>> THEN 0 ELSE Len(calls) - 1
    /\ \A n \in 1..Len(sleeps) :
          /\ sleeps[n] = n * 1
          /\ ConnectionOrTimeout(calls[n])
          /\ n < MAX_RETRIES

\* three attempts failed: one unit was slept after the first, two after the
\* second, none after the third
C16_Witness ==
    /\ pc = "done"
    /\ Len(calls) = 3
    /\ ConnectionOrTimeout(calls[3])
    /\ sleeps = <<1, 2>>

\* C17: after _sign has returned, the mapping it was given holds the
\* entries it held when it was passed, and the returned mapping holds those
\* entries in their order, followed by timestamp and then signature.
C17_SignerLeavesInputUnchanged ==
    (pc = "done" /\ outcome.kind = "return" /\ "signature" \in Keys(outcome.value)) =>
       /\ params = callerParams
       /\ Len(outcome.value) = Len(callerParams) + 2
       /\ SubSeq(outcome.value, 1, Len(callerParams)) = callerParams
       /\ outcome.value[Len(callerParams) + 1] = Entry("timestamp", PyInt(now * 1000))
       /\ outcome.value[Len(callerParams) + 2].k = "signature"

\* C18: at every point of a run with its one call of placeOrder, the
\* exchange has accepted at most one order, whatever the attempts ended
\* in, a read timeout after the exchange processed the request included.
C18_AtMostOneOrderAccepted == accepted <= 1

\* the clock reading at which the request was signed: the time now less the
\* time the attempts and the sleeps have taken
SignedAt == now - Sum(sleeps) - Sum([n \in 1..Len(calls) |-> Elapsed(calls[n].result)])

\* C19: every attempt of a request transmits the parameters the first
\* attempt transmitted, entry for entry; the timestamp of each is the clock
\* reading from before the first attempt, whatever time timeouts and sleeps
\* have taken since, and the signature of each is the one computed then.
C19_AttemptsTransmitSameParameters ==
    \A i \in 1..Len(calls) :
       /\ calls[i].data = calls[1].data
       /\ calls[i].data = urlencode(params)
       /\ SentValue(calls[i], "timestamp") = pystr(PyInt(SignedAt * 1000))
       /\ SentValue(calls[i], "signature") = Signature(params)

\* a third attempt, more than twenty seconds after signing, has sent the
\* timestamp of the first
C19_Witness ==
    /\ Len(calls) = 3
    /\ now >= 20
    /\ SignedAt = 0
    /\ SentValue(calls[3], "timestamp") = <<"0">>
    /\ calls[3].data = calls[1].data

\* C20: once placeOrder has called client.post, and however the request
\* ends, the mapping it passed holds exactly the entries placeOrder built:
\* it has gained neither timestamp nor signature, which are in _request's
\* own mapping only.
C20_CallerMappingUnchanged ==
    calls # <<>> \/ pc = "request" =>
       /\ callerParams = buildParams(validateOrder(raw).vals)
       /\ Keys(callerParams) \cap {"timestamp", "signature"} = {}
       /\ Keys(params) = Keys(callerParams) \cup {"timestamp", "signature"}
       /\ \A i \in 1..Len(callerParams) : params[i] = callerParams[i]

\* the request ended in an error of the exchange, with the caller's mapping
\* as it was built and the signature in _request's mapping
C20_Witness ==
    /\ pc = "done"
    /\ placed.kind = "raise"
    /\ placed.exc.cls = "BinanceAPIError"
    /\ Len(callerParams) = 4
    /\ Len(params) = 6
    /\ "signature" \in Keys(params)

====
